---- MODULE Spec2Model ----
(***************************************************************************)
(* SpinOp: sparse sums of site-indexed spin generator strings.             *)
(*                                                                         *)
(* An operator is a dictionary from labels ("X_0 Y_1") to complex          *)
(* coefficients, plus num_spins and spin.  The implementation file of      *)
(* SpinOp is not part of src/; the operations below follow                 *)
(* src/test/second_q/operators/test_spin_op.py wherever a test fixes the   *)
(* behaviour, and spec.md (sections 3, 4 and 7) for the rest.              *)
(*                                                                         *)
(* Representation                                                          *)
(*   label   : sequence of one-character strings, <<"X","_","0">>; a      *)
(*             token is "G_i" or "G_i^k" (k repetitions of the factor)     *)
(*   coeff   : <<re, im, k>>, the complex number (re + im*j) / 2^k in      *)
(*             lowest terms (the tests use 1, 2, 1j, 2+4j, 0.5, ...);      *)
(*             floating-point arithmetic is exact on these values and the  *)
(*             tolerance test isclose(c, 0) is c = 0                       *)
(*   data    : sequence of [label, coeff] with distinct labels, in         *)
(*             insertion order (a Python dict)                             *)
(*   operator: [num_spins, spin, data]; spin is stored as 2*spin           *)
(***************************************************************************)
EXTENDS Integers, Sequences, FiniteSets, TLC

\* ---------------------------------------------------------------- bounds
MaxSites == 2
MaxLen == 2
MaxTerms == 2
MaxPairFactors == 2
MaxCoeff == 1
MaxFactors == 2
MaxExp == 2
MaxShift == 1
MaxCalls == 2

\* The generators of the label grammar (only Y carries a sign under
\* transpose/conjugate).
Gens == {"X", "Y", "Z"}

\* Coefficients drawn for the inputs: 1+1j, -1-1j, 0 (a value that differs from
\* its conjugate and from its negative, the value that cancels it, and zero).
Coeffs == {<<1, 1, 0>>, <<-1, -1, 0>>, <<0, 0, 0>>}

\* Coefficients drawn for the argument of a binary operation: 1, 1j.
ArgCoeffs == {<<1, 0, 0>>, <<0, 1, 0>>}

\* spin = 1/2, stored doubled
DefaultSpin == 1

\* ------------------------------------------------- complex coefficients
RECURSIVE pow2(_)
pow2(k) == IF k = 0 THEN 1 ELSE 2 * pow2(k - 1)

\* (re + im*j) / 2^k in lowest terms
RECURSIVE lowest(_)
lowest(c) ==
    IF c[3] > 0 /\ c[1] % 2 = 0 /\ c[2] % 2 = 0
    THEN lowest(<<c[1] \div 2, c[2] \div 2, c[3] - 1>>)
    ELSE c

c_zero == <<0, 0, 0>>
c_one == <<1, 0, 0>>

c_add(c, d) ==
    LET k == IF c[3] >= d[3] THEN c[3] ELSE d[3]
    IN  lowest(<<c[1] * pow2(k - c[3]) + d[1] * pow2(k - d[3]),
                 c[2] * pow2(k - c[3]) + d[2] * pow2(k - d[3]), k>>)
c_neg(c) == <<0 - c[1], 0 - c[2], c[3]>>
c_mul(c, d) ==
    lowest(<<c[1] * d[1] - c[2] * d[2], c[1] * d[2] + c[2] * d[1], c[3] + d[3]>>)
c_conj(c) == <<c[1], 0 - c[2], c[3]>>
is_zero(c) == c[1] = 0 /\ c[2] = 0

\* 1 / d for a power of two d = 2^m (m >= 0)
RECURSIVE log2(_)
log2(n) == IF n = 1 THEN 0 ELSE 1 + log2(n \div 2)

reciprocal(d) == <<1, 0, log2(d[1])>>

\* ----------------------------------------------------------- label codec
Digits == <<"0", "1", "2", "3", "4", "5", "6", "7", "8", "9">>

digit_value(ch) == (CHOOSE k \in 1..10 : Digits[k] = ch) - 1

\* f"{index}": decimal digits of a non-negative integer
RECURSIVE format_index(_)
format_index(n) ==
    IF n < 10 THEN <<Digits[n + 1]>>
    ELSE format_index(n \div 10) \o <<Digits[(n % 10) + 1]>>

\* int(lbl[2:])
RECURSIVE parse_index(_)
parse_index(s) ==
    IF Len(s) = 0 THEN 0
    ELSE 10 * parse_index(SubSeq(s, 1, Len(s) - 1)) + digit_value(s[Len(s)])

\* label.split(): the maximal runs of non-space characters
RECURSIVE split_from(_, _, _)
split_from(s, i, cur) ==
    IF i > Len(s) THEN (IF cur = <<>> THEN <<>> ELSE <<cur>>)
    ELSE IF s[i] = " "
         THEN (IF cur = <<>> THEN <<>> ELSE <<cur>>) \o split_from(s, i + 1, <<>>)
         ELSE split_from(s, i + 1, Append(cur, s[i]))

split(s) == split_from(s, 1, <<>>)

\* " ".join(tokens)
RECURSIVE join(_)
join(toks) ==
    IF Len(toks) = 0 THEN <<>>
    ELSE IF Len(toks) = 1 THEN toks[1]
    ELSE toks[1] \o <<" ">> \o join(Tail(toks))

\* position of the "^" of a token "G_i^k", 0 for a token "G_i"
caret(tok) ==
    IF \E p \in 1..Len(tok) : tok[p] = "^"
    THEN CHOOSE p \in 1..Len(tok) : tok[p] = "^"
    ELSE 0

\* the site index of a token: the digits after "G_", up to the "^" if any
token_index(tok) ==
    parse_index(SubSeq(tok, 3, IF caret(tok) = 0 THEN Len(tok) ELSE caret(tok) - 1))

\* the exponent of a token: the digits after "^", 1 when there is no "^"
token_exponent(tok) ==
    IF caret(tok) = 0 THEN 1 ELSE parse_index(SubSeq(tok, caret(tok) + 1, Len(tok)))

\* the factors of one token: "G_i" is (G, i) once, "G_i^k" is (G, i) k times
parse_factor(tok) == [e \in 1..token_exponent(tok) |-> <<tok[1], token_index(tok)>>]

\* f"{char}_{index}"
format_factor(f) == <<f[1], "_">> \o format_index(f[2])

\* the factor list of a label: the factors of its tokens, in order
RECURSIVE parse_tokens(_)
parse_tokens(toks) ==
    IF Len(toks) = 0 THEN <<>>
    ELSE parse_factor(toks[1]) \o parse_tokens(Tail(toks))

parse_label(label) == parse_tokens(split(label))

\* the label of a factor list
format_label(fs) == join([i \in 1..Len(fs) |-> format_factor(fs[i])])

\* ------------------------------------------------------------ dictionary
\* position of a key, 0 when absent
find(data, label) ==
    IF \E k \in 1..Len(data) : data[k].label = label
    THEN CHOOSE k \in 1..Len(data) : data[k].label = label
    ELSE 0

\* data[label] = c
put(data, label, c) ==
    LET k == find(data, label)
    IN  IF k = 0 THEN Append(data, [label |-> label, coeff |-> c])
        ELSE [data EXCEPT ![k].coeff = c]

\* data[label] += c   (a missing key counts as 0)
put_add(data, label, c) ==
    LET k == find(data, label)
    IN  IF k = 0 THEN Append(data, [label |-> label, coeff |-> c])
        ELSE [data EXCEPT ![k].coeff = c_add(@, c)]

\* {label: coeff for label, coeff in data.items() if not isclose(coeff, 0)}
drop_zeros(data) == SelectSeq(data, LAMBDA e : ~is_zero(e.coeff))

\* ------------------------------------------------------------- operators
SpinOp(data, n) == [num_spins |-> n, spin |-> DefaultSpin, data |-> data]

\* SpinOp.zero(): the empty mapping
zero == SpinOp(<<>>, 0)

\* SpinOp.one(): the identity label with coefficient 1
one == SpinOp(<<[label |-> <<>>, coeff |-> c_one]>>, 0)

\* what a call yields when it raises
None == [num_spins |-> -1, spin |-> 0, data |-> <<>>]

\* terms() walking the dictionary from its last entry to its first
terms_backwards(op) ==
    [i \in 1..Len(op.data) |->
        <<parse_label(op.data[Len(op.data) + 1 - i].label),
          op.data[Len(op.data) + 1 - i].coeff>>]

\* terms(): one (factor list, coefficient) pair per stored label, in order
terms(op) ==
    [i \in 1..Len(op.data) |-> <<parse_label(op.data[i].label), op.data[i].coeff>>]

\* from_terms(terms): {" ".join(f"{c}_{i}" ...): value for label, value in terms},
\* num_spins left to be inferred from the labels
max_index(data) ==
    LET idx == UNION {{token_index(split(data[k].label)[i]) :
                          i \in 1..Len(split(data[k].label))} :
                      k \in 1..Len(data)}
    IN  IF idx = {} THEN -1 ELSE CHOOSE m \in idx : \A x \in idx : x <= m

\* the factor lists of ts are pairwise different
distinct_terms(ts) == \A i, j \in 1..Len(ts) : i # j => ts[i][1] # ts[j][1]

\* one entry per pair, in the order of the list (the lists handed to from_terms
\* have pairwise different factor lists, so every label is a new key)
RECURSIVE from_terms_data(_, _)
from_terms_data(ts, acc) ==
    IF Len(ts) = 0 THEN acc
    ELSE from_terms_data(Tail(ts),
             Append(acc, [label |-> format_label(ts[1][1]), coeff |-> ts[1][2]]))

from_terms(ts) ==
    LET d == from_terms_data(ts, <<>>)
    IN  SpinOp(d, max_index(d) + 1)

\* num_spins left out of the constructor call
Omitted == -1

\* SpinOp(data, num_spins=n) for labels whose sites are all below n; an omitted
\* n is one more than the largest index
construct(data, n) == SpinOp(data, IF n = Omitted THEN max_index(data) + 1 ELSE n)

\* list(g) for the generator g that recv.terms() returned and that has yielded
\* its first pos pairs already: the pairs that are left
remaining(op, pos) == SubSeq(terms(op), pos + 1, Len(op.data))

\* equality that also compares num_spins and spin
eq_with_metadata(a, b) ==
    /\ a.num_spins = b.num_spins
    /\ a.spin = b.spin
    /\ Len(a.data) = Len(b.data)
    /\ \A k \in 1..Len(a.data) :
          LET m == find(b.data, a.data[k].label)
          IN  m # 0 /\ b.data[m].coeff = a.data[k].coeff

\* __eq__: the two label -> coefficient dictionaries are equal
eq(a, b) ==
    /\ Len(a.data) = Len(b.data)
    /\ \A k \in 1..Len(a.data) :
          LET m == find(b.data, a.data[k].label)
          IN  m # 0 /\ b.data[m].coeff = a.data[k].coeff

\* arithmetic between operators of differing num_spins or spin is rejected
mismatch(a, b) == a.num_spins # b.num_spins \/ a.spin # b.spin

shift_factors(fs, shift) == [i \in 1..Len(fs) |-> <<fs[i][1], fs[i][2] + shift>>]

\* the double loop of compose/tensor: pair k of the row-major enumeration of
\* (term of a, term of b); the new label is a's factors then b's shifted ones
RECURSIVE tensor_data(_, _, _, _, _)
tensor_data(ta, tb, shift, k, acc) ==
    IF k > Len(ta) * Len(tb) THEN acc
    ELSE LET i == ((k - 1) \div Len(tb)) + 1
             j == ((k - 1) % Len(tb)) + 1
             new_label == format_label(ta[i][1] \o shift_factors(tb[j][1], shift))
         IN  tensor_data(ta, tb, shift, k + 1,
                         put_add(acc, new_label, c_mul(ta[i][2], tb[j][2])))

\* the exception of a + b, a - b, a @ b ("none" when the call returns)
arith_error(a, b) == IF mismatch(a, b) THEN "DimensionMismatchError" ELSE "none"

\* compose with the operands' factors in the wrong order (b's first)
compose_right_first(a, b) ==
    IF mismatch(a, b) THEN None
    ELSE SpinOp(tensor_data(terms(b), terms(a), 0, 1, <<>>), a.num_spins)

\* a @ b
compose(a, b) ==
    IF mismatch(a, b) THEN None
    ELSE SpinOp(tensor_data(terms(a), terms(b), 0, 1, <<>>), a.num_spins)

\* tensor that leaves the sites of the right operand as they are
tensor_no_shift(a, b) ==
    IF a.spin # b.spin THEN None
    ELSE SpinOp(tensor_data(terms(a), terms(b), 0, 1, <<>>),
                a.num_spins + b.num_spins)

\* a.tensor(b)
tensor(a, b) ==
    IF a.spin # b.spin THEN None
    ELSE SpinOp(tensor_data(terms(a), terms(b), a.num_spins, 1, <<>>),
                a.num_spins + b.num_spins)

\* a.expand(b) == b.tensor(a)
expand(a, b) == tensor(b, a)

\* -a
RECURSIVE neg_data(_)
neg_data(data) ==
    IF Len(data) = 0 THEN <<>>
    ELSE <<[label |-> data[1].label, coeff |-> c_neg(data[1].coeff)]>> \o neg_data(Tail(data))

neg(a) == SpinOp(neg_data(a.data), a.num_spins)

\* a * c and c * a: every coefficient times the scalar c, labels unchanged
mul(a, c) ==
    SpinOp([k \in 1..Len(a.data) |->
               [label |-> a.data[k].label, coeff |-> c_mul(a.data[k].coeff, c)]],
           a.num_spins)

\* a / c == a * (1 / c)
div(a, c) == mul(a, reciprocal(c))

\* a + b: structural union, coefficients of shared labels add
RECURSIVE add_data(_, _)
add_data(acc, data) ==
    IF Len(data) = 0 THEN acc
    ELSE add_data(put_add(acc, data[1].label, data[1].coeff), Tail(data))

add(a, b) ==
    IF mismatch(a, b) THEN None
    ELSE SpinOp(add_data(a.data, b.data), a.num_spins)

\* a - b == a + (-b)
sub(a, b) ==
    IF mismatch(a, b) THEN None
    ELSE SpinOp(add_data(a.data, neg_data(b.data)), a.num_spins)

\* simplify(): rebuild every label from its factors, sum equal labels, drop zeros
RECURSIVE simplify_data(_, _)
simplify_data(ts, acc) ==
    IF Len(ts) = 0 THEN acc
    ELSE simplify_data(Tail(ts), put_add(acc, format_label(ts[1][1]), ts[1][2]))

\* simplify that merges but keeps the zero coefficients
simplify_keep_zeros(a) == SpinOp(simplify_data(terms(a), <<>>), a.num_spins)

simplify(a) == SpinOp(drop_zeros(simplify_data(terms(a), <<>>)), a.num_spins)

\* the sorting loop of index_order on one factor list:
\*   for i in range(1, len(terms)):
\*       for j in range(i, 0, -1):
\*           if terms[j-1].site > terms[j].site: swap them
\* (factor terms[j] of the code is fs[j + 1] here)
swap(fs, j) == [fs EXCEPT ![j] = fs[j + 1], ![j + 1] = fs[j]]

\* the inner loop swapping on >= instead of >: equal sites change places
RECURSIVE sort_inner_unstable(_, _)
sort_inner_unstable(fs, j) ==
    IF j = 0 THEN fs
    ELSE sort_inner_unstable(IF fs[j][2] >= fs[j + 1][2] THEN swap(fs, j) ELSE fs, j - 1)

RECURSIVE sort_inner(_, _)
sort_inner(fs, j) ==
    IF j = 0 THEN fs
    ELSE sort_inner(IF fs[j][2] > fs[j + 1][2] THEN swap(fs, j) ELSE fs, j - 1)

RECURSIVE sort_outer(_, _)
sort_outer(fs, i) ==
    IF i > Len(fs) - 1 THEN fs
    ELSE sort_outer(sort_inner(fs, i), i + 1)

index_order_term(fs) == sort_outer(fs, 1)

\* index_order(): sort every term, sum the coefficients of terms that become
\* the same label, then remove the zero coefficients
RECURSIVE index_order_data(_, _)
index_order_data(ts, acc) ==
    IF Len(ts) = 0 THEN acc
    ELSE index_order_data(Tail(ts),
             put_add(acc, format_label(index_order_term(ts[1][1])), ts[1][2]))

\* index_order that sorts the labels only: equal labels overwrite each other and
\* zero coefficients stay
RECURSIVE sort_only_data(_, _)
sort_only_data(ts, acc) ==
    IF Len(ts) = 0 THEN acc
    ELSE sort_only_data(Tail(ts),
             put(acc, format_label(index_order_term(ts[1][1])), ts[1][2]))

index_order_sort_only(a) == SpinOp(sort_only_data(terms(a), <<>>), a.num_spins)

index_order(a) == SpinOp(drop_zeros(index_order_data(terms(a), <<>>)), a.num_spins)

\* number of Y factors of a label ("Y_i^k" counts k times)
count_y(label) ==
    Cardinality({i \in 1..Len(parse_label(label)) : parse_label(label)[i][1] = "Y"})

\* each Y factor flips the sign
y_sign(label, c) == IF count_y(label) % 2 = 1 THEN c_neg(c) ELSE c

reversed(toks) == [i \in 1..Len(toks) |-> toks[Len(toks) + 1 - i]]

\* transpose(): " ".join(reversed(label.split())), one sign flip per Y
RECURSIVE transpose_data(_, _)
transpose_data(data, acc) ==
    IF Len(data) = 0 THEN acc
    ELSE transpose_data(Tail(data),
             put(acc, join(reversed(split(data[1].label))),
                 y_sign(data[1].label, data[1].coeff)))

\* transpose that only reverses the labels, without the sign of the Y factors
RECURSIVE reverse_only_data(_, _)
reverse_only_data(data, acc) ==
    IF Len(data) = 0 THEN acc
    ELSE reverse_only_data(Tail(data),
             put(acc, join(reversed(split(data[1].label))), data[1].coeff))

transpose_no_sign(a) == SpinOp(reverse_only_data(a.data, <<>>), a.num_spins)

transpose(a) == SpinOp(transpose_data(a.data, <<>>), a.num_spins)

\* conjugate(): conjugated coefficient, one sign flip per Y, labels unchanged
RECURSIVE conjugate_data(_, _)
conjugate_data(data, acc) ==
    IF Len(data) = 0 THEN acc
    ELSE conjugate_data(Tail(data),
             put(acc, data[1].label, y_sign(data[1].label, c_conj(data[1].coeff))))

\* conjugate that only conjugates the coefficients, without the sign of the Y factors
RECURSIVE conj_only_data(_, _)
conj_only_data(data, acc) ==
    IF Len(data) = 0 THEN acc
    ELSE conj_only_data(Tail(data), put(acc, data[1].label, c_conj(data[1].coeff)))

conjugate_no_sign(a) == SpinOp(conj_only_data(a.data, <<>>), a.num_spins)

conjugate(a) == SpinOp(conjugate_data(a.data, <<>>), a.num_spins)

\* adjoint() == conjugate().transpose()
adjoint(a) == transpose(conjugate(a))

\* f"{char}_{permutation[index]}" for every factor (permutation is 0-based)
permute_term(fs, permutation) ==
    format_label([i \in 1..Len(fs) |-> <<fs[i][1], permutation[fs[i][2] + 1]>>])

RECURSIVE permute_data(_, _, _)
permute_data(ts, permutation, acc) ==
    IF Len(ts) = 0 THEN acc
    ELSE permute_data(Tail(ts), permutation,
             put_add(acc, permute_term(ts[1][1], permutation), ts[1][2]))

\* the exception of permute_indices ("none" when the call returns)
permute_error(a, permutation) ==
    IF Len(permutation) # a.num_spins THEN "ValueError" ELSE "none"

\* permute_indices rejecting only the permutations that are too short
permute_indices_long_ok(a, permutation) ==
    IF Len(permutation) < a.num_spins THEN None
    ELSE SpinOp(permute_data(terms(a), permutation, <<>>), a.num_spins)

\* permute_indices(permutation): a permutation of the wrong length raises
permute_indices(a, permutation) ==
    IF Len(permutation) # a.num_spins THEN None
    ELSE SpinOp(permute_data(terms(a), permutation, <<>>), a.num_spins)

\* ---------------------------------------------------------------- inputs
FactorSeqs(n, maxlen) == UNION {[1..k -> Gens \X (0..(n - 1))] : k \in 0..maxlen}

\* exponents written in the input labels: the empty power and a repetition
Exps == {0, MaxExp}

\* f"{char}_{index}^{exponent}"
format_power(g, i, e) == format_factor(<<g, i>>) \o <<"^">> \o format_index(e)

\* input labels on n sites: up to maxlen factors written one by one, or one
\* factor written with an exponent
Labels(n, maxlen) ==
    {format_label(fs) : fs \in FactorSeqs(n, maxlen)}
        \cup {format_power(g, i, e) : g \in Gens, i \in 0..(n - 1), e \in Exps}

Entries(n, maxlen, coeffs) ==
    {[label |-> l, coeff |-> c] : l \in Labels(n, maxlen), c \in coeffs}

\* dictionaries of at most MaxTerms entries with distinct labels on n sites
InputData(n, maxlen, coeffs) ==
    {d \in UNION {[1..k -> Entries(n, maxlen, coeffs)] : k \in 0..MaxTerms} :
        \A i, j \in 1..Len(d) : i < j => d[i].label # d[j].label}

\* valid constructions SpinOp(data, num_spins=n): every site index is below n
InputOps(maxlen, coeffs) ==
    {o \in {SpinOp(d, n) : d \in InputData(MaxSites, maxlen, coeffs), n \in 0..MaxSites} :
        max_index(o.data) < o.num_spins}

Receivers == InputOps(MaxLen, Coeffs)

ArgOps == InputOps(MaxLen, ArgCoeffs)

num_factors(a) ==
    LET ts == terms(a)
        RECURSIVE total(_)
        total(k) == IF k = 0 THEN 0 ELSE Len(ts[k][1]) + total(k - 1)
    IN  total(Len(ts))

\* the written size of an operator: one per factor its labels spell out, and
\* one for a token with exponent 0
written_size(a) ==
    LET RECURSIVE of_tokens(_)
        of_tokens(toks) ==
            IF Len(toks) = 0 THEN 0
            ELSE (IF token_exponent(toks[1]) = 0 THEN 1 ELSE token_exponent(toks[1]))
                     + of_tokens(Tail(toks))
        RECURSIVE total(_)
        total(k) == IF k = 0 THEN 0 ELSE of_tokens(split(a.data[k].label)) + total(k - 1)
    IN  total(Len(a.data))

\* the same dictionary declared on n sites (valid for n >= a.num_spins)
redeclared(a, n) == [a EXCEPT !.num_spins = n]

\* ArgOps by size: the operands of written size at most f
ArgsWithin == [f \in 0..MaxPairFactors |-> {o \in ArgOps : written_size(o) <= f}]

\* arguments paired with receiver a: the operands that keep the written size of
\* the pair within MaxPairFactors, and a itself declared on its own or more sites
Args(a) ==
    (IF written_size(a) <= MaxPairFactors
     THEN ArgsWithin[MaxPairFactors - written_size(a)] ELSE {})
        \cup {redeclared(a, n) : n \in a.num_spins..MaxSites}

\* permutation arguments, as 0-based index sequences: the bijections of
\* {0..k-1} for every register size k, and one sequence longer than any register
Perms ==
    UNION {{q \in [1..k -> 0..(k - 1)] : \A i, j \in 1..k : i # j => q[i] # q[j]} :
           k \in 0..MaxSites}
        \cup {[i \in 1..(MaxSites + 1) |-> i - 1]}

\* ----------------------------------------------------------------- state
VARIABLES
    recv,   \* the receiver: an immutable operator
    arg,    \* the operator argument of the last call (None when it took none)
    perm,   \* the permutation argument of the last call
    out,    \* the operator the last call returned (None when it returned none)
    err,    \* the exception the last call raised ("none" when it returned)
    gen,    \* the generator the last recv.terms() call returned: the number of
            \* pairs it has yielded so far (-1: no generator yet)
    lst,    \* what the last list(g) call returned
    lists,  \* what list(recv.terms()) returned, call by call
    ans,    \* the result of the last ==: "True", "False" ("none" otherwise)
    last    \* the last call ("init": none yet); a run constructs recv and
            \* makes one call on it, or terms()/list() calls followed by
            \* from_terms

vars == <<recv, arg, perm, out, err, gen, lst, lists, ans, last>>

Init ==
    /\ recv \in Receivers
    /\ arg = None
    /\ perm = <<>>
    /\ out = None
    /\ err = "none"
    /\ gen = -1
    /\ lst = <<>>
    /\ lists = <<>>
    /\ ans = "none"
    /\ last = "init"

\* a call on recv that returns operator r (or raises e and returns nothing)
Returns(name, r, e) ==
    /\ last' = name
    /\ out' = r
    /\ err' = e
    /\ ans' = "none"
    /\ UNCHANGED <<recv, gen, lists>>

Compose ==
    /\ last = "init"
    /\ \E o \in Args(recv) :
        /\ Returns("compose", compose(recv, o),
                   arith_error(recv, o))
        /\ arg' = o
        /\ perm' = <<>>
        /\ UNCHANGED lst

Tensor ==
    /\ last = "init"
    /\ \E o \in Args(recv) :
        /\ Returns("tensor", tensor(recv, o), "none")
        /\ arg' = o
        /\ perm' = <<>>
        /\ UNCHANGED lst

Sub ==
    /\ last = "init"
    /\ \E o \in Args(recv) :
        /\ Returns("sub", sub(recv, o),
                   arith_error(recv, o))
        /\ arg' = o
        /\ perm' = <<>>
        /\ UNCHANGED lst

Eq ==
    /\ last = "init"
    /\ \E o \in Args(recv) :
        /\ last' = "eq"
        /\ ans' = IF eq(recv, o) THEN "True" ELSE "False"
        /\ arg' = o
        /\ out' = None
        /\ err' = "none"
        /\ perm' = <<>>
        /\ UNCHANGED <<recv, gen, lst, lists>>

Simplify ==
    /\ last = "init"
    /\ Returns("simplify", simplify(recv), "none")
    /\ arg' = None
    /\ perm' = <<>>
    /\ UNCHANGED lst

IndexOrder ==
    /\ last = "init"
    /\ Returns("index_order", index_order(recv), "none")
    /\ arg' = None
    /\ perm' = <<>>
    /\ UNCHANGED lst

Transpose ==
    /\ last = "init"
    /\ Returns("transpose", transpose(recv), "none")
    /\ arg' = None
    /\ perm' = <<>>
    /\ UNCHANGED lst

Conjugate ==
    /\ last = "init"
    /\ Returns("conjugate", conjugate(recv), "none")
    /\ arg' = None
    /\ perm' = <<>>
    /\ UNCHANGED lst

Adjoint ==
    /\ last = "init"
    /\ Returns("adjoint", adjoint(recv), "none")
    /\ arg' = None
    /\ perm' = <<>>
    /\ UNCHANGED lst

PermuteIndices ==
    /\ last = "init"
    /\ \E q \in Perms :
        /\ Returns("permute_indices", permute_indices(recv, q),
                   permute_error(recv, q))
        /\ arg' = None
        /\ perm' = q
        /\ UNCHANGED lst

\* g = recv.terms(): every call returns a new generator, which has yielded
\* nothing yet
Terms ==
    /\ last \in {"init", "list", "list_again"}
    /\ Len(lists) < MaxCalls
    /\ last' = "terms"
    /\ gen' = 0
    /\ out' = None
    /\ err' = "none"
    /\ ans' = "none"
    /\ arg' = None
    /\ perm' = <<>>
    /\ UNCHANGED <<recv, lst, lists>>

\* list(g): the pairs g has not yielded yet; g is exhausted afterwards, so a
\* second list(g) on the same generator is empty
ListTerms ==
    /\ last \in {"terms", "list", "list_again"}
    /\ last' = IF last = "terms" THEN "list" ELSE "list_again"
    /\ lst' = remaining(recv, gen)
    /\ lists' = IF last = "terms" THEN Append(lists, remaining(recv, gen)) ELSE lists
    /\ gen' = Len(recv.data)
    /\ out' = None
    /\ err' = "none"
    /\ ans' = "none"
    /\ arg' = None
    /\ perm' = <<>>
    /\ UNCHANGED recv

\* SpinOp.from_terms(lst) on the list that list(recv.terms()) just returned,
\* when its factor lists are pairwise different
FromTerms ==
    /\ last = "list"
    /\ distinct_terms(lst)
    /\ Returns("from_terms", from_terms(lst), "none")
    /\ arg' = None
    /\ perm' = <<>>
    /\ UNCHANGED lst

Next ==
    \/ Compose
    \/ Tensor
    \/ Sub
    \/ Eq
    \/ Simplify
    \/ IndexOrder
    \/ Transpose
    \/ Conjugate
    \/ Adjoint
    \/ PermuteIndices
    \/ Terms
    \/ ListTerms
    \/ FromTerms

Spec == Init /\ [][Next]_vars

\* ---------------------------------------------------------- chained calls
\* A second behaviour: an operator is constructed from a dictionary of labels,
\* and every call is then made on the operator the previous call returned.
\* recv is the operator at hand (None before the construction), out the result
\* of the last call, arg its operator argument
\* (for the constructor: the dictionary and the num_spins passed to it).

\* dictionaries handed to the constructor
RawData == InputData(MaxSites, MaxLen, {c_one})

\* num_spins handed to the constructor
RawSites == {Omitted} \cup (0..MaxSites)

\* scalars of a * c
Scalars == {<<2, 0, 0>>, c_zero}

\* divisors of a / c: powers of two, whose reciprocal is an exact float
Divisors == {<<2, 0, 0>>}

\* operands of the chained binary calls: one term of at most one factor
ChainArgOps ==
    UNION {{SpinOp(<<[label |-> format_label(fs), coeff |-> c_one]>>, n) :
                fs \in FactorSeqs(n, 1)} : n \in 0..MaxSites}

\* operands of a + o, a - o, a @ o: declared on as many sites as a; a itself
Operands(a) == {o \in ChainArgOps : o.num_spins = a.num_spins} \cup {a}

\* operands of a.tensor(o), a.expand(o): on any number of sites that keeps the
\* product within MaxSites; a itself
TensorOperands(a) ==
    {o \in ChainArgOps \cup {a} : a.num_spins + o.num_spins <= MaxSites}

\* permutation arguments of the chained calls: the bijections of the sites of a
ChainPerms(a) == {q \in Perms : Len(q) = a.num_spins}

\* the size limits of the operators kept at hand: sites, terms, tokens per
\* label, written size in total, coefficient numerators and denominator (the
\* site indices are not looked at)
fits(r) ==
    /\ r.num_spins <= MaxSites
    /\ Len(r.data) <= MaxTerms
    /\ written_size(r) <= MaxFactors
    /\ \A k \in 1..Len(r.data) :
          /\ Len(split(r.data[k].label)) <= MaxLen
          /\ r.data[k].coeff[1] \in (0 - MaxCoeff)..MaxCoeff
          /\ r.data[k].coeff[2] \in (0 - MaxCoeff)..MaxCoeff
          /\ r.data[k].coeff[3] <= MaxShift

ChainInit ==
    /\ recv = None
    /\ arg = None
    /\ perm = <<>>
    /\ out = None
    /\ err = "none"
    /\ gen = -1
    /\ lst = <<>>
    /\ lists = <<>>
    /\ ans = "none"
    /\ last = "init"

\* an operator is at hand
Constructed == last # "init" /\ recv # None

\* a call that returns operator r, which becomes the operator at hand (or
\* raises e, returns nothing and leaves the operator at hand as it was)
Then(name, result, e) ==
    \E r \in {result} :
        /\ fits(r)
        /\ last' = name
        /\ out' = r
        /\ err' = e
        /\ recv' = IF e = "none" THEN r ELSE recv
        /\ UNCHANGED <<gen, lst, lists, ans>>

\* SpinOp(d, num_spins=n) with every site of d below n, or with n left out
Construct ==
    /\ last = "init"
    /\ \E d \in RawData, n \in RawSites :
        /\ n = Omitted \/ max_index(d) < n
        /\ Then("construct", construct(d, n), "none")
        /\ arg' = [num_spins |-> n, spin |-> DefaultSpin, data |-> d]
        /\ perm' = <<>>

ChainAdd ==
    /\ Constructed
    /\ \E o \in Operands(recv) :
        /\ Then("add", add(recv, o), arith_error(recv, o))
        /\ arg' = o
        /\ perm' = <<>>

ChainSub ==
    /\ Constructed
    /\ \E o \in Operands(recv) :
        /\ Then("sub", sub(recv, o), arith_error(recv, o))
        /\ arg' = o
        /\ perm' = <<>>

ChainMul ==
    /\ Constructed
    /\ \E c \in Scalars :
        /\ Then("mul", mul(recv, c), "none")
        /\ arg' = None
        /\ perm' = <<>>

ChainDiv ==
    /\ Constructed
    /\ \E c \in Divisors :
        /\ Then("div", div(recv, c), "none")
        /\ arg' = None
        /\ perm' = <<>>

ChainNeg ==
    /\ Constructed
    /\ Then("neg", neg(recv), "none")
    /\ arg' = None
    /\ perm' = <<>>

ChainConjugate ==
    /\ Constructed
    /\ Then("conjugate", conjugate(recv), "none")
    /\ arg' = None
    /\ perm' = <<>>

ChainTranspose ==
    /\ Constructed
    /\ Then("transpose", transpose(recv), "none")
    /\ arg' = None
    /\ perm' = <<>>

ChainAdjoint ==
    /\ Constructed
    /\ Then("adjoint", adjoint(recv), "none")
    /\ arg' = None
    /\ perm' = <<>>

ChainCompose ==
    /\ Constructed
    /\ \E o \in Operands(recv) :
        /\ Then("compose", compose(recv, o), arith_error(recv, o))
        /\ arg' = o
        /\ perm' = <<>>

ChainTensor ==
    /\ Constructed
    /\ \E o \in TensorOperands(recv) :
        /\ Then("tensor", tensor(recv, o), "none")
        /\ arg' = o
        /\ perm' = <<>>

ChainExpand ==
    /\ Constructed
    /\ \E o \in TensorOperands(recv) :
        /\ Then("expand", expand(recv, o), "none")
        /\ arg' = o
        /\ perm' = <<>>

ChainSimplify ==
    /\ Constructed
    /\ Then("simplify", simplify(recv), "none")
    /\ arg' = None
    /\ perm' = <<>>

ChainIndexOrder ==
    /\ Constructed
    /\ Then("index_order", index_order(recv), "none")
    /\ arg' = None
    /\ perm' = <<>>

\* permute_indices with a bijective permutation
ChainPermuteIndices ==
    /\ Constructed
    /\ \E q \in ChainPerms(recv) :
        /\ Then("permute_indices", permute_indices(recv, q), permute_error(recv, q))
        /\ arg' = None
        /\ perm' = q

ChainNext ==
    \/ Construct
    \/ ChainAdd
    \/ ChainSub
    \/ ChainMul
    \/ ChainDiv
    \/ ChainNeg
    \/ ChainConjugate
    \/ ChainTranspose
    \/ ChainAdjoint
    \/ ChainCompose
    \/ ChainTensor
    \/ ChainExpand
    \/ ChainSimplify
    \/ ChainIndexOrder
    \/ ChainPermuteIndices

ChainSpec == ChainInit /\ [][ChainNext]_vars

\* ------------------------------------------------------------ properties
\* sum of the coefficient products ta[i] * tb[j] over a set of index pairs
RECURSIVE sum_products(_, _, _)
sum_products(ta, tb, pairs) ==
    IF pairs = {} THEN c_zero
    ELSE LET pq == CHOOSE x \in pairs : TRUE
         IN  c_add(c_mul(ta[pq[1]][2], tb[pq[2]][2]),
                   sum_products(ta, tb, pairs \ {pq}))

\* the index pairs (term of a, term of b) whose concatenation is factor list t
concat_sources(ta, tb, t) ==
    {pq \in (1..Len(ta)) \X (1..Len(tb)) : ta[pq[1]][1] \o tb[pq[2]][1] = t}

\* C1: for operands of equal num_spins and spin, a @ b holds exactly the
\* concatenations (a's factors, then b's) of a term of a with a term of b, each
\* once, with the sum of cA*cB over the pairs that produce that concatenation.
ComposeConcatenates ==
    (last = "compose" /\ ~mismatch(recv, arg)) =>
        LET ta == terms(recv)
            tb == terms(arg)
            to == terms(out)
        IN  /\ err = "none"
            /\ out.num_spins = recv.num_spins
            /\ \A i \in 1..Len(ta), j \in 1..Len(tb) :
                  \E k \in 1..Len(to) : to[k][1] = ta[i][1] \o tb[j][1]
            /\ \A k \in 1..Len(to) :
                  /\ concat_sources(ta, tb, to[k][1]) # {}
                  /\ to[k][2] = sum_products(ta, tb, concat_sources(ta, tb, to[k][1]))
            /\ \A k, m \in 1..Len(to) : k # m => to[k][1] # to[m][1]

\* a composition where two different pairs give the same concatenation, next
\* to concatenations that only one pair gives
ComposeWitness ==
    /\ last = "compose"
    /\ err = "none"
    /\ Len(out.data) >= 3
    /\ \E k \in 1..Len(out.data) :
          /\ Cardinality(concat_sources(terms(recv), terms(arg), terms(out)[k][1])) >= 2
          /\ ~is_zero(out.data[k].coeff)

\* the index pairs (term of a, term of b) that give factor list t when b's
\* sites are raised by n
raised(fs, n) == [i \in 1..Len(fs) |-> <<fs[i][1], fs[i][2] + n>>]

raised_sources(ta, tb, n, t) ==
    {pq \in (1..Len(ta)) \X (1..Len(tb)) : ta[pq[1]][1] \o raised(tb[pq[2]][1], n) = t}

\* C2: a.tensor(b) is declared on a.num_spins + b.num_spins sites; every one
\* of its terms is a term of a (sites unchanged) followed by a term of b with
\* every site raised by a.num_spins, and every such pair is there; when no
\* operand holds two labels for one factor list, there is exactly one term per
\* pair and its coefficient is the product of the two coefficients.
TensorShiftsRight ==
    last = "tensor" =>
        LET ta == terms(recv)
            tb == terms(arg)
            to == terms(out)
            n == recv.num_spins
        IN  /\ err = "none"
            /\ out.num_spins = recv.num_spins + arg.num_spins
            /\ \A i \in 1..Len(ta), j \in 1..Len(tb) :
                  \E k \in 1..Len(to) : to[k][1] = ta[i][1] \o raised(tb[j][1], n)
            /\ \A k \in 1..Len(to) : raised_sources(ta, tb, n, to[k][1]) # {}
            /\ (distinct_terms(ta) /\ distinct_terms(tb)) =>
                  /\ Len(to) = Len(ta) * Len(tb)
                  /\ \A i \in 1..Len(ta), j \in 1..Len(tb) :
                        \E k \in 1..Len(to) :
                            to[k] = <<ta[i][1] \o raised(tb[j][1], n),
                                      c_mul(ta[i][2], tb[j][2])>>

\* a tensor product of operands on different numbers of sites, neither with
\* two labels for one factor list, that has several terms, a raised factor
\* among them, and a coefficient that is neither operand's
TensorWitness ==
    /\ last = "tensor"
    /\ recv.num_spins # arg.num_spins
    /\ recv.num_spins >= 1
    /\ distinct_terms(terms(recv))
    /\ distinct_terms(terms(arg))
    /\ Len(out.data) >= 2
    /\ \E k \in 1..Len(out.data) :
          LET t == terms(out)[k][1]
          IN  /\ \E i \in 1..Len(t) : t[i][2] >= recv.num_spins
              /\ \E i \in 1..Len(t) : t[i][2] < recv.num_spins
              /\ ~is_zero(out.data[k].coeff)
              /\ \A m \in 1..Len(recv.data) : recv.data[m].coeff # out.data[k].coeff
              /\ \A m \in 1..Len(arg.data) : arg.data[m].coeff # out.data[k].coeff

\* the factors of fs on site st, in their order in fs
on_site(fs, st) == SelectSeq(fs, LAMBDA f : f[2] = st)

site_indices(fs) == {fs[i][2] : i \in 1..Len(fs)}

\* u holds the factors of t, and site by site in the order they have in t
same_site_order(t, u) ==
    /\ Len(t) = Len(u)
    /\ \A st \in site_indices(t) \cup site_indices(u) : on_site(t, st) = on_site(u, st)

ascending(fs) == \A i \in 1..(Len(fs) - 1) : fs[i][2] <= fs[i + 1][2]

\* sum of the coefficients of the terms of ts at the positions in idx
RECURSIVE sum_coeffs(_, _)
sum_coeffs(ts, idx) ==
    IF idx = {} THEN c_zero
    ELSE LET k == CHOOSE x \in idx : TRUE
         IN  c_add(ts[k][2], sum_coeffs(ts, idx \ {k}))

\* the terms of ts that have the factors of t in the same order on every site
reorderings(ts, t) == {k \in 1..Len(ts) : same_site_order(ts[k][1], t)}

\* C3: index_order is a stable sort by site: every term of the result is in
\* ascending site order and is some term of the receiver with the same factors,
\* those on one site in their original relative order; every term of the
\* receiver has that arrangement in the result unless its coefficients cancel.
IndexOrderStable ==
    last = "index_order" =>
        LET ti == terms(recv)
            to == terms(out)
        IN  /\ \A k \in 1..Len(to) :
                  /\ ascending(to[k][1])
                  /\ reorderings(ti, to[k][1]) # {}
            /\ \A i \in 1..Len(ti) :
                  \/ \E k \in 1..Len(to) : same_site_order(ti[i][1], to[k][1])
                  \/ is_zero(sum_coeffs(ti, reorderings(ti, ti[i][1])))

\* a receiver with a term of two different generators on one site and a term
\* whose sites descend, both kept
IndexOrderWitness ==
    /\ last = "index_order"
    /\ Len(out.data) = 2
    /\ \E i, j \in 1..Len(recv.data) :
          LET t == terms(recv)[i][1]
              u == terms(recv)[j][1]
          IN  /\ Len(t) = 2 /\ t[1][2] = t[2][2] /\ t[1][1] # t[2][1]
              /\ Len(u) = 2 /\ u[1][2] > u[2][2]
              /\ \E k \in 1..Len(out.data) : terms(out)[k][1] = <<u[2], u[1]>>

\* C4 as stated: index_order alone neither merges terms that become the same
\* factor sequence nor drops zero coefficients: one entry per entry of the
\* receiver, with the receiver's coefficient.
IndexOrderNeverMerges ==
    last = "index_order" =>
        /\ Len(out.data) = Len(recv.data)
        /\ \A i \in 1..Len(recv.data) :
              \E k \in 1..Len(out.data) :
                  /\ same_site_order(terms(recv)[i][1], terms(out)[k][1])
                  /\ out.data[k].coeff = recv.data[i].coeff

\* C4, amended: index_order itself merges and cancels: the terms of the receiver
\* that become the same factor sequence share one entry whose coefficient is
\* the sum of theirs, and an entry whose coefficient is zero is removed.
IndexOrderMerges ==
    last = "index_order" =>
        LET ti == terms(recv)
            to == terms(out)
        IN  /\ \A k, m \in 1..Len(to) : k # m => to[k][1] # to[m][1]
            /\ \A k \in 1..Len(to) :
                  /\ to[k][2] = sum_coeffs(ti, reorderings(ti, to[k][1]))
                  /\ ~is_zero(to[k][2])
            /\ \A i \in 1..Len(ti) :
                  ~is_zero(sum_coeffs(ti, reorderings(ti, ti[i][1]))) =>
                      \E k \in 1..Len(to) : same_site_order(ti[i][1], to[k][1])

\* two terms with non-zero coefficients that become one entry holding their sum
IndexOrderMergeWitness ==
    /\ last = "index_order"
    /\ Len(recv.data) = 2
    /\ Len(out.data) = 1
    /\ ~is_zero(recv.data[1].coeff)
    /\ ~is_zero(recv.data[2].coeff)
    /\ out.data[1].coeff = c_add(recv.data[1].coeff, recv.data[2].coeff)

reverse_factors(fs) == [i \in 1..Len(fs) |-> fs[Len(fs) + 1 - i]]

num_y(fs) == Cardinality({i \in 1..Len(fs) : fs[i][1] = "Y"})

\* C5 as stated: transpose reverses the factors of every term and leaves every
\* coefficient as it was, however many Y factors the term has.
TransposeKeepsCoefficients ==
    last = "transpose" =>
        \A i \in 1..Len(recv.data) :
            \E k \in 1..Len(out.data) :
                terms(out)[k] = <<reverse_factors(terms(recv)[i][1]), terms(recv)[i][2]>>

\* C5, amended: transpose reverses the factors of every term and multiplies the
\* coefficient by -1 once per Y factor: (t, c) becomes (reverse(t), c) for an
\* even number of Y factors and (reverse(t), -c) for an odd number.
TransposeFlipsPerY ==
    last = "transpose" =>
        /\ Len(out.data) = Len(recv.data)
        /\ out.num_spins = recv.num_spins
        /\ \A i \in 1..Len(recv.data) :
              LET t == terms(recv)[i][1]
                  c == terms(recv)[i][2]
              IN  \E k \in 1..Len(out.data) :
                      terms(out)[k] =
                          <<reverse_factors(t), IF num_y(t) % 2 = 0 THEN c ELSE c_neg(c)>>

\* a transposed receiver with a term of one Y and another factor on another
\* site, and a term with no Y, both with non-zero coefficients
TransposeWitness ==
    /\ last = "transpose"
    /\ \E i, j \in 1..Len(recv.data) :
          LET t == terms(recv)[i][1]
              u == terms(recv)[j][1]
          IN  /\ Len(t) = 2 /\ num_y(t) = 1 /\ t[1][2] # t[2][2]
              /\ ~is_zero(recv.data[i].coeff)
              /\ Len(u) >= 1 /\ num_y(u) = 0
              /\ ~is_zero(recv.data[j].coeff)

\* C6: adjoint maps every term (t, c) to (reverse(t), conj(c)), it is transpose
\* followed by conjugate, and the adjoint of the adjoint equals the receiver.
DoubleAdjointIdentity ==
    last = "adjoint" =>
        /\ Len(out.data) = Len(recv.data)
        /\ \A i \in 1..Len(recv.data) :
              \E k \in 1..Len(out.data) :
                  terms(out)[k] =
                      <<reverse_factors(terms(recv)[i][1]), c_conj(terms(recv)[i][2])>>
        /\ eq(out, conjugate(transpose(recv)))
        /\ eq(adjoint(out), recv)
        /\ adjoint(out).num_spins = recv.num_spins

\* the adjoint of a receiver with an imaginary coefficient on a term of two
\* factors on one site, one of them a Y
AdjointWitness ==
    /\ last = "adjoint"
    /\ \E i \in 1..Len(recv.data) :
          LET t == terms(recv)[i][1]
          IN  /\ Len(t) = 2 /\ t[1][2] = t[2][2] /\ num_y(t) = 1
              /\ recv.data[i].coeff[2] # 0
              /\ out.data # recv.data

\* the terms of ts with factor list t
same_factors(ts, t) == {k \in 1..Len(ts) : ts[k][1] = t}

\* C7: the difference of an operator with itself simplifies to the empty
\* mapping (it equals SpinOp.zero()), and simplify keeps, written factor by
\* factor and each once, exactly the factor lists of its receiver whose summed
\* coefficient is not zero, with that sum.
SelfCancellation ==
    /\ (last = "sub" /\ arg = recv) =>
          /\ err = "none"
          /\ Len(out.data) = Len(recv.data)
          /\ simplify(out).data = <<>>
          /\ eq(simplify(out), zero)
    /\ last = "simplify" =>
          LET ti == terms(recv)
              to == terms(out)
          IN  /\ \A k \in 1..Len(to) :
                    /\ ~is_zero(to[k][2])
                    /\ out.data[k].label = format_label(to[k][1])
                    /\ same_factors(ti, to[k][1]) # {}
                    /\ to[k][2] = sum_coeffs(ti, same_factors(ti, to[k][1]))
              /\ \A k, m \in 1..Len(to) : k # m => to[k][1] # to[m][1]
              /\ \A i \in 1..Len(ti) :
                    is_zero(sum_coeffs(ti, same_factors(ti, ti[i][1])))
                        <=> ~\E k \in 1..Len(to) : to[k][1] = ti[i][1]

\* an operator of two terms with non-zero coefficients, the identity term
\* among them, subtracted from itself
SelfCancellationWitness ==
    /\ last = "sub"
    /\ arg = recv
    /\ Len(recv.data) = 2
    /\ \A k \in 1..2 : ~is_zero(recv.data[k].coeff)
    /\ \E k \in 1..2 : recv.data[k].label = <<>>
    /\ \A k \in 1..Len(out.data) : is_zero(out.data[k].coeff)

\* C8: a permutation whose length differs from num_spins makes permute_indices
\* raise and return nothing; a bijection of exactly num_spins entries is
\* accepted and relabels every site of every term (terms with the same factor
\* list share one entry); the receiver is the same before and after.
PermutationLengthChecked ==
    [][last' = "permute_indices" =>
          /\ recv' = recv
          /\ Len(perm') # recv.num_spins => (err' = "ValueError" /\ out' = None)
          /\ Len(perm') = recv.num_spins =>
                /\ err' = "none"
                /\ out' # None
                /\ out'.num_spins = recv.num_spins
                /\ LET ti == terms(recv)
                       to == terms(out')
                       moved(t) == [n \in 1..Len(t) |-> <<t[n][1], perm'[t[n][2] + 1]>>]
                   IN  /\ \A i \in 1..Len(ti) :
                             \E k \in 1..Len(to) :
                                 /\ to[k][1] = moved(ti[i][1])
                                 /\ to[k][2] = sum_coeffs(ti, same_factors(ti, ti[i][1]))
                       /\ \A k \in 1..Len(to) :
                             \E i \in 1..Len(ti) : to[k][1] = moved(ti[i][1])
                       /\ \A k, m \in 1..Len(to) : k # m => to[k][1] # to[m][1]]_vars

\* a permutation longer than the register was rejected on a receiver with terms
PermutationRejectedWitness ==
    /\ last = "permute_indices"
    /\ Len(perm) > recv.num_spins
    /\ recv.num_spins >= 1
    /\ Len(recv.data) >= 1
    /\ err = "ValueError"

\* a label written factor by factor, without an exponent
written_out(label) == format_label(parse_label(label)) = label

item_set(a) == {<<a.data[k].label, a.data[k].coeff>> : k \in 1..Len(a.data)}

\* C10 as stated: two operators (here: with at least one term) compare equal
\* only if they have the same num_spins and the same spin.
EqualityNeedsSameSites ==
    (last = "eq" /\ ans = "True" /\ Len(recv.data) >= 1) =>
        (recv.num_spins = arg.num_spins /\ recv.spin = arg.spin)

\* C10, amended: == compares the label -> coefficient mappings and nothing else:
\* two operators (of one spin) are equal exactly when they hold the same labels
\* with the same coefficients, on whatever numbers of sites they are declared.
EqualityComparesMappings ==
    last = "eq" =>
        /\ ans \in {"True", "False"}
        /\ ans = "True" <=> item_set(recv) = item_set(arg)

\* two operators with the same non-empty mapping on different numbers of sites
\* compared equal
EqualityWitness ==
    /\ last = "eq"
    /\ ans = "True"
    /\ recv.num_spins # arg.num_spins
    /\ Len(recv.data) >= 1

\* ---- C11: site-range invariant
\* every token of every label of a (and so every factor of every term) names
\* a site i with 0 <= i < a.num_spins
in_range(a) ==
    \A k \in 1..Len(a.data) :
        LET toks == split(a.data[k].label)
        IN  \A i \in 1..Len(toks) :
                0 <= token_index(toks[i]) /\ token_index(toks[i]) < a.num_spins

\* C11, for the operators of ChainSpec: the operator at hand after any sequence
\* of add, sub, scalar mul, div, neg, conjugate, transpose, adjoint, compose,
\* tensor, expand, simplify, index_order and permute_indices (bijective
\* permutation) calls on an operator constructed with every site below its
\* num_spins has every site index in 0..num_spins-1, and so has the operator
\* every call returned.
SiteRangeInvariant ==
    /\ in_range(recv)
    /\ in_range(out)

\* reached: a call that renumbers sites returned an operator on MaxSites sites
\* with a factor on the last site and one on site 0: a tensor or expand with
\* an operand that has a factor of its own, or permute_indices with a
\* permutation that moves a site
SiteRangeWitness ==
    /\ \/ /\ last \in {"tensor", "expand"}
          /\ arg.num_spins >= 1
          /\ num_factors(arg) >= 1
       \/ /\ last = "permute_indices"
          /\ \E i \in 1..Len(perm) : perm[i] # i - 1
    /\ err = "none"
    /\ out = recv
    /\ recv.num_spins = MaxSites
    /\ \E k \in 1..Len(recv.data) :
          \E i \in 1..Len(parse_label(recv.data[k].label)) :
              parse_label(recv.data[k].label)[i][2] = MaxSites - 1
    /\ \E k \in 1..Len(recv.data) :
          \E i \in 1..Len(parse_label(recv.data[k].label)) :
              parse_label(recv.data[k].label)[i][2] = 0
====
